---- MODULE Spec2Model ----
(***************************************************************************)
(* The bitter-turnips world (src/src/bitter.rs): a tick counter, a         *)
(* generational entity store with secondary maps, and a LIFO event stack   *)
(* drained by World::process_events.  Entity keys are modelled as the      *)
(* naturals 1..entities: World never removes a key from the SlotMap, so    *)
(* keys are handed out in increasing order and never reused.  One step of  *)
(* the `while let Some(evt) = self.events.pop()` loop is one action; the   *)
(* public operations are enabled only while the stack is empty, which is   *)
(* when a caller holds the World.                                          *)
(***************************************************************************)
EXTENDS Naturals, Integers, Sequences, FiniteSets, TLC

VARIABLES events, entities, coords, last_id, death_markers, farms, ticks,
          satiation, villagers, panicked, handled

vars == <<events, entities, coords, last_id, death_markers, farms, ticks,
          satiation, villagers, panicked, handled>>

(* ---- bounds of the exploration ---- *)
MaxTicks == 40
MaxGraveTicks == 59
MaxFedTicks == 99
MaxVillagerAdds == 3
MaxFarmAdds == 1
SetupTicks == 0

(* ---- program constants ---- *)
GRID_WIDTH == 8
GRID_HEIGHT == 8

CARDINAL_DIRECTIONS == <<"Up", "Down", "Left", "Right">>

Direction == {"Up", "Down", "Left", "Right"}

(* cells a caller of add_villager_at / add_farm_at passes in the runs explored *)
VillagerPlacements == {<<0, 0>>}
FarmPlacements == {<<0, 0>>, <<5, 4>>}

(* the cells that the long runs keep to, and the cells their live farms stand
   on between cascades *)
Fence == {<<0, 0>>, <<4, 4>>, <<5, 3>>, <<5, 4>>, <<5, 5>>, <<5, 6>>}
Orchard == {<<5, 4>>, <<5, 5>>}

EmptyMap == [k \in {} |-> 0]

(* ---- entity records (Villager::new, Farm::new, DeathMarker { key }) ---- *)
VillagerNew(id, key, t) == [id |-> id, key |-> key, last_ate |-> t]

FarmNew(id, key, x, y, t) == [id |-> id, key |-> key, last_grew |-> t]

DeathMarkerNew(key) == [key |-> key]

(* ---- WorldEvent values ---- *)
WE(kind, key, dir, c) == [kind |-> kind, key |-> key, dir |-> dir, coords |-> c]

WE_VillagerMoved(key, dir) == WE("VillagerMoved", key, dir, <<0, 0>>)
WE_VillagerAte(key) == WE("VillagerAte", key, "None", <<0, 0>>)
WE_VillagerHungered(key) == WE("VillagerHungered", key, "None", <<0, 0>>)
WE_FarmGrew(key) == WE("FarmGrew", key, "None", <<0, 0>>)
WE_FarmHarvested(key) == WE("FarmHarvested", key, "None", <<0, 0>>)
WE_VillagerDied(key) == WE("VillagerDied", key, "None", <<0, 0>>)
WE_FarmAdded(c) == WE("FarmAdded", 0, "None", c)
WE_VillagerHarvested(key) == WE("VillagerHarvested", key, "None", <<0, 0>>)
WE_GravesCleared == WE("GravesCleared", 0, "None", <<0, 0>>)
WE_FarmsCultivated == WE("FarmsCultivated", 0, "None", <<0, 0>>)
WE_VillagersFarmed == WE("VillagersFarmed", 0, "None", <<0, 0>>)
WE_VillagersMoved == WE("VillagersMoved", 0, "None", <<0, 0>>)

(* ---- SecondaryMap iteration: keys()/values() visit slots in index order ---- *)
RECURSIVE keys_in_order(_)
keys_in_order(S) ==
  IF S = {} THEN <<>>
  ELSE LET m == CHOOSE x \in S : \A y \in S : x <= y
       IN <<m>> \o keys_in_order(S \ {m})

map_remove(m, key) == [k \in (DOMAIN m) \ {key} |-> m[k]]

map_insert(m, key, v) == [k \in (DOMAIN m) \cup {key} |-> IF k = key THEN v ELSE m[k]]

(* ---- free functions ---- *)
coords_after_move(c, dir) ==
  LET x == c[1]
      y == c[2]
  IN  CASE dir = "Up"    -> IF y > 1 THEN <<x, y - 1>> ELSE <<x, y>>
        [] dir = "Down"  -> IF y < GRID_HEIGHT - 2 THEN <<x, y + 1>> ELSE <<x, y>>
        [] dir = "Left"  -> IF x > 1 THEN <<x - 1, y>> ELSE <<x, y>>
        [] dir = "Right" -> IF x < GRID_WIDTH - 2 THEN <<x + 1, y>> ELSE <<x, y>>

can_move_in_dir(c, dir) ==
  LET x == c[1]
      y == c[2]
  IN  CASE dir = "Up"    -> y > 1
        [] dir = "Down"  -> y < GRID_HEIGHT - 2
        [] dir = "Left"  -> x > 1
        [] dir = "Right" -> x < GRID_WIDTH - 2

(* ---- World::new ---- *)
Init ==
  /\ events = <<>>
  /\ entities = 4
  /\ coords = (1 :> <<4, 4>>) @@ (2 :> <<5, 4>>) @@ (3 :> <<5, 5>>) @@ (4 :> <<5, 6>>)
  /\ last_id = 4
  /\ death_markers = EmptyMap
  /\ farms = (2 :> FarmNew(2, 2, 5, 4, 0)) @@ (3 :> FarmNew(3, 3, 5, 5, 0))
               @@ (4 :> FarmNew(4, 4, 5, 6, 0))
  /\ ticks = 0
  /\ satiation = (1 :> 1)
  /\ villagers = (1 :> VillagerNew(1, 1, 0))
  /\ panicked = FALSE
  /\ handled = <<>>

(* ---- the dispatch loop: pop, handle, extend ---- *)
pop_fifo(evs) == [evt |-> evs[1], rest |-> SubSeq(evs, 2, Len(evs))]

pop(evs) == [evt |-> evs[Len(evs)], rest |-> SubSeq(evs, 1, Len(evs) - 1)]

Dispatching == events # <<>> /\ ~panicked

Cur == pop(events).evt

extend(new_events) ==
  /\ events' = pop(events).rest \o new_events
  /\ handled' = Append(handled, Cur.kind)
  /\ panicked' = FALSE

(* indexing a SecondaryMap with a key it does not hold aborts the process *)
Fault ==
  /\ panicked' = TRUE
  /\ events' = pop(events).rest
  /\ handled' = Append(handled, Cur.kind)
  /\ UNCHANGED <<entities, coords, last_id, death_markers, farms, ticks, satiation, villagers>>

villager_moved(key, dir) ==
  IF key \notin DOMAIN coords THEN Fault
  ELSE /\ coords' = [coords EXCEPT ![key] = coords_after_move(coords[key], dir)]
       /\ extend(<<>>)
       /\ UNCHANGED <<entities, last_id, death_markers, farms, ticks, satiation, villagers>>

villager_ate_keeps_time(key) ==
  IF key \notin DOMAIN satiation \/ key \notin DOMAIN villagers THEN Fault
  ELSE /\ satiation' = [satiation EXCEPT ![key] = (satiation[key] + 1) % 256]
       /\ extend(<<>>)
       /\ UNCHANGED <<entities, coords, last_id, death_markers, farms, ticks, villagers>>

(* u8 `+= 1`: aborts in a checked build, wraps in an unchecked one *)
villager_ate(key) ==
  IF key \notin DOMAIN satiation \/ key \notin DOMAIN villagers THEN Fault
  ELSE \/ /\ satiation' = [satiation EXCEPT ![key] = (satiation[key] + 1) % 256]
          /\ villagers' = [villagers EXCEPT ![key].last_ate = ticks]
          /\ extend(<<>>)
          /\ UNCHANGED <<entities, coords, last_id, death_markers, farms, ticks>>
       \/ /\ satiation[key] = 255
          /\ Fault

villager_hungered_unguarded(key) ==
  IF key \notin DOMAIN satiation \/ key \notin DOMAIN villagers THEN Fault
  ELSE /\ satiation' = [satiation EXCEPT ![key] = (satiation[key] + 255) % 256]
       /\ villagers' = [villagers EXCEPT ![key].last_ate = ticks]
       /\ extend(<<>>)
       /\ UNCHANGED <<entities, coords, last_id, death_markers, farms, ticks>>

villager_hungered_requeues(key) ==
  IF key \notin DOMAIN satiation THEN Fault
  ELSE IF satiation[key] > 0
       THEN IF key \notin DOMAIN villagers THEN Fault
            ELSE /\ satiation' = [satiation EXCEPT ![key] = satiation[key] - 1]
                 /\ villagers' = [villagers EXCEPT ![key].last_ate = ticks]
                 /\ extend(<<>>)
                 /\ UNCHANGED <<entities, coords, last_id, death_markers, farms, ticks>>
       ELSE /\ extend(<<WE_VillagerHungered(key)>>)
            /\ UNCHANGED <<entities, coords, last_id, death_markers, farms, ticks,
                           satiation, villagers>>

villager_hungered(key) ==
  IF key \notin DOMAIN satiation THEN Fault
  ELSE IF satiation[key] > 0
       THEN IF key \notin DOMAIN villagers THEN Fault
            ELSE /\ satiation' = [satiation EXCEPT ![key] = satiation[key] - 1]
                 /\ villagers' = [villagers EXCEPT ![key].last_ate = ticks]
                 /\ extend(<<>>)
                 /\ UNCHANGED <<entities, coords, last_id, death_markers, farms, ticks>>
       ELSE /\ extend(<<WE_VillagerDied(key)>>)
            /\ UNCHANGED <<entities, coords, last_id, death_markers, farms, ticks,
                           satiation, villagers>>

all_possible_coords_unfiltered(key) ==
  LET reachable == SelectSeq(CARDINAL_DIRECTIONS,
                             LAMBDA d : can_move_in_dir(coords[key], d))
  IN  [i \in 1..Len(reachable) |-> coords_after_move(coords[key], reachable[i])]

(* the neighbour cells farm_grew collects, in CARDINAL_DIRECTIONS order, less
   every cell that holds a live farm *)
all_possible_coords(key) ==
  LET reachable == SelectSeq(CARDINAL_DIRECTIONS,
                             LAMBDA d : can_move_in_dir(coords[key], d))
      moved == [i \in 1..Len(reachable) |-> coords_after_move(coords[key], reachable[i])]
  IN  SelectSeq(moved, LAMBDA c : \A k \in DOMAIN farms : coords[k] # c)

in_cooldown_of_ten(now, last_grew) == now - last_grew < 10

in_cooldown(now, last_grew) == now - last_grew < 20

farm_grew(key) ==
  IF key \notin DOMAIN farms THEN Fault
  ELSE IF in_cooldown(ticks, farms[key].last_grew)
       THEN /\ extend(<<>>)
            /\ UNCHANGED <<entities, coords, last_id, death_markers, farms, ticks,
                           satiation, villagers>>
       ELSE /\ farms' = [farms EXCEPT ![key].last_grew = ticks]
            /\ IF Len(all_possible_coords(key)) = 0
               THEN extend(<<>>)
               ELSE \E ci \in 1..Len(all_possible_coords(key)) :
                      extend(<<WE_FarmAdded(all_possible_coords(key)[ci])>>)
            /\ UNCHANGED <<entities, coords, last_id, death_markers, ticks,
                           satiation, villagers>>

farm_harvested(key) ==
  /\ farms' = map_remove(farms, key)
  /\ extend(<<>>)
  /\ UNCHANGED <<entities, coords, last_id, death_markers, ticks, satiation, villagers>>

villager_died_at_origin(vk) ==
  IF vk \notin DOMAIN coords THEN Fault
  ELSE LET dmk == entities + 1
       IN  /\ entities' = dmk
           /\ death_markers' = map_insert(death_markers, dmk, DeathMarkerNew(dmk))
           /\ coords' = map_insert(coords, dmk, <<0, 0>>)
           /\ villagers' = map_remove(villagers, vk)
           /\ extend(<<>>)
           /\ UNCHANGED <<last_id, farms, ticks, satiation>>

villager_died(vk) ==
  IF vk \notin DOMAIN coords THEN Fault
  ELSE LET dmk == entities + 1
       IN  /\ entities' = dmk
           /\ death_markers' = map_insert(death_markers, dmk, DeathMarkerNew(dmk))
           /\ coords' = map_insert(coords, dmk, coords[vk])
           /\ villagers' = map_remove(villagers, vk)
           /\ extend(<<>>)
           /\ UNCHANGED <<last_id, farms, ticks, satiation>>

farm_added(c) ==
  LET new_id == last_id + 1
      key == entities + 1
  IN  /\ entities' = key
      /\ farms' = map_insert(farms, key, FarmNew(new_id, key, c[1], c[2], ticks))
      /\ coords' = map_insert(coords, key, c)
      /\ last_id' = new_id
      /\ extend(<<>>)
      /\ UNCHANGED <<death_markers, ticks, satiation, villagers>>

need_to_eat_up_to_five(s, time_since_last_ate) == s <= 5 /\ time_since_last_ate < 40

need_to_eat_whatever_satiation(s, time_since_last_ate) == time_since_last_ate < 40

need_to_eat(s, time_since_last_ate) == s < 5 /\ time_since_last_ate < 40

villager_harvested_keeps_farm(vk) ==
  IF vk \notin DOMAIN villagers \/ vk \notin DOMAIN satiation THEN Fault
  ELSE LET unharvested_farms == keys_in_order(DOMAIN farms)
           time_since_last_ate == ticks - villagers[vk].last_ate
           food_left_to_eat == Len(unharvested_farms) > 0
       IN  /\ IF need_to_eat(satiation[vk], time_since_last_ate)
              THEN IF food_left_to_eat
                   THEN extend(<<WE_VillagerAte(vk)>>)
                   ELSE extend(<<WE_VillagerHungered(vk)>>)
              ELSE extend(<<>>)
           /\ UNCHANGED <<entities, coords, last_id, death_markers, farms, ticks,
                          satiation, villagers>>

villager_harvested(vk) ==
  IF vk \notin DOMAIN villagers \/ vk \notin DOMAIN satiation THEN Fault
  ELSE LET unharvested_farms == keys_in_order(DOMAIN farms)
           time_since_last_ate == ticks - villagers[vk].last_ate
           food_left_to_eat == Len(unharvested_farms) > 0
       IN  /\ IF need_to_eat(satiation[vk], time_since_last_ate)
              THEN IF food_left_to_eat
                   THEN \E farm_to_eat_index \in 1..Len(unharvested_farms) :
                          extend(<<WE_FarmHarvested(unharvested_farms[farm_to_eat_index]),
                                   WE_VillagerAte(vk)>>)
                   ELSE extend(<<WE_VillagerHungered(vk)>>)
              ELSE extend(<<>>)
           /\ UNCHANGED <<entities, coords, last_id, death_markers, farms, ticks,
                          satiation, villagers>>

graves_cleared_keeps_markers ==
  /\ extend(<<>>)
  /\ UNCHANGED <<entities, coords, last_id, death_markers, farms, ticks, satiation,
                 villagers>>

graves_cleared ==
  /\ death_markers' = EmptyMap
  /\ extend(<<>>)
  /\ UNCHANGED <<entities, coords, last_id, farms, ticks, satiation, villagers>>

farms_cultivated ==
  LET ks == keys_in_order(DOMAIN farms)
  IN  /\ extend([i \in 1..Len(ks) |-> WE_FarmGrew(farms[ks[i]].key)])
      /\ UNCHANGED <<entities, coords, last_id, death_markers, farms, ticks,
                     satiation, villagers>>

villagers_farmed ==
  LET ks == keys_in_order(DOMAIN villagers)
  IN  /\ extend([i \in 1..Len(ks) |-> WE_VillagerHarvested(ks[i])])
      /\ UNCHANGED <<entities, coords, last_id, death_markers, farms, ticks,
                     satiation, villagers>>

villagers_moved_over_satiation ==
  LET ks == keys_in_order(DOMAIN satiation)
  IN  /\ \E direction \in [1..Len(ks) -> Direction] :
           extend([i \in 1..Len(ks) |-> WE_VillagerMoved(ks[i], direction[i])])
      /\ UNCHANGED <<entities, coords, last_id, death_markers, farms, ticks,
                     satiation, villagers>>

villagers_moved ==
  LET ks == keys_in_order(DOMAIN villagers)
  IN  /\ \E direction \in [1..Len(ks) -> Direction] :
           extend([i \in 1..Len(ks) |-> WE_VillagerMoved(ks[i], direction[i])])
      /\ UNCHANGED <<entities, coords, last_id, death_markers, farms, ticks,
                     satiation, villagers>>

(* ---- one iteration of process_events per event kind ---- *)
HandleVillagerMoved == Dispatching /\ Cur.kind = "VillagerMoved" /\ villager_moved(Cur.key, Cur.dir)
HandleVillagerAte == Dispatching /\ Cur.kind = "VillagerAte" /\ villager_ate(Cur.key)
HandleVillagerHungered == Dispatching /\ Cur.kind = "VillagerHungered" /\ villager_hungered(Cur.key)
HandleFarmGrew == Dispatching /\ Cur.kind = "FarmGrew" /\ farm_grew(Cur.key)
HandleFarmHarvested == Dispatching /\ Cur.kind = "FarmHarvested" /\ farm_harvested(Cur.key)
HandleVillagerDied == Dispatching /\ Cur.kind = "VillagerDied" /\ villager_died(Cur.key)
HandleFarmAdded == Dispatching /\ Cur.kind = "FarmAdded" /\ farm_added(Cur.coords)
HandleVillagerHarvested == Dispatching /\ Cur.kind = "VillagerHarvested" /\ villager_harvested(Cur.key)
HandleGravesCleared == Dispatching /\ Cur.kind = "GravesCleared" /\ graves_cleared
HandleFarmsCultivated == Dispatching /\ Cur.kind = "FarmsCultivated" /\ farms_cultivated
HandleVillagersFarmed == Dispatching /\ Cur.kind = "VillagersFarmed" /\ villagers_farmed
HandleVillagersMoved == Dispatching /\ Cur.kind = "VillagersMoved" /\ villagers_moved

process_events ==
  \/ HandleVillagerMoved
  \/ HandleVillagerAte
  \/ HandleVillagerHungered
  \/ HandleFarmGrew
  \/ HandleFarmHarvested
  \/ HandleVillagerDied
  \/ HandleFarmAdded
  \/ HandleVillagerHarvested
  \/ HandleGravesCleared
  \/ HandleFarmsCultivated
  \/ HandleVillagersFarmed
  \/ HandleVillagersMoved

(* ---- public operations; a caller can act only between cascades ---- *)
Idle == events = <<>> /\ ~panicked

add_villager_at(x, y) ==
  LET new_id == last_id + 1
      key == entities + 1
  IN  /\ entities' = key
      /\ villagers' = map_insert(villagers, key, VillagerNew(new_id, key, ticks))
      /\ coords' = map_insert(coords, key, <<x, y>>)
      /\ satiation' = map_insert(satiation, key, 1)
      /\ last_id' = new_id
      /\ UNCHANGED <<events, death_markers, farms, ticks, panicked, handled>>

add_farm_at(x, y) ==
  LET new_id == last_id + 1
      key == entities + 1
  IN  /\ entities' = key
      /\ farms' = map_insert(farms, key, FarmNew(new_id, key, x, y, ticks))
      /\ coords' = map_insert(coords, key, <<x, y>>)
      /\ last_id' = new_id
      /\ UNCHANGED <<events, death_markers, ticks, satiation, villagers, panicked, handled>>

(* The callers explored set the world up during the first SetupTicks ticks:
   one places up to MaxVillagerAdds further villagers, another up to
   MaxFarmAdds further farms, a third one farm and then one villager
   (World::new itself places villager 1 and farms 2..4). *)
AddVillagerAt ==
  /\ Idle
  /\ ticks <= SetupTicks
  /\ IF Cardinality(DOMAIN farms) = 3
     THEN Cardinality(DOMAIN villagers) < 1 + MaxVillagerAdds
     ELSE Cardinality(DOMAIN villagers) = 1 /\ Cardinality(DOMAIN farms) = 4
  /\ \E c \in VillagerPlacements : add_villager_at(c[1], c[2])

AddFarmAt ==
  /\ Idle
  /\ ticks <= SetupTicks
  /\ Cardinality(DOMAIN villagers) = 1
  /\ Cardinality(DOMAIN farms) < 3 + MaxFarmAdds
  /\ \E c \in FarmPlacements : add_farm_at(c[1], c[2])

cascade_due_late(t) == t % 20 = 0

cascade_due(t) == (t + 1) % 20 = 0

advance_world_graves_last ==
  /\ events' = events \o <<WE_GravesCleared, WE_FarmsCultivated,
                           WE_VillagersFarmed, WE_VillagersMoved>>
  /\ handled' = <<>>

advance_world ==
  /\ events' = events \o <<WE_VillagersMoved, WE_VillagersFarmed,
                           WE_FarmsCultivated, WE_GravesCleared>>
  /\ handled' = <<>>

(* every cell an entity of the run stands on or was last seen on is in Fence,
   and the live farms are one on each cell of Orchard *)
Fenced ==
  /\ \A k \in DOMAIN coords : coords[k] \in Fence
  /\ {coords[k] : k \in DOMAIN farms} = Orchard
  /\ Cardinality(DOMAIN farms) = Cardinality(Orchard)

(* runs are followed for MaxTicks ticks; a run that holds a death marker is
   followed on to MaxGraveTicks, past the cascade that clears it; a run that
   is Fenced is followed on to MaxFedTicks *)
tick ==
  /\ Idle
  /\ \/ ticks < MaxTicks
     \/ DOMAIN death_markers # {} /\ ticks < MaxGraveTicks
     \/ Fenced /\ ticks < MaxFedTicks
  /\ ticks' = ticks + 1
  /\ IF cascade_due(ticks') THEN advance_world ELSE UNCHANGED <<events, handled>>
  /\ UNCHANGED <<entities, coords, last_id, death_markers, farms, satiation,
                 villagers, panicked>>

(* ---- read-only lookups; they leave the World as it is ---- *)
None == <<"None">>

Some(v) == <<"Some", v>>

LookupFault == <<"Fault">>

RECURSIVE first_villager_at(_, _, _)
first_villager_at(ks, x, y) ==
  IF ks = <<>> THEN None
  ELSE LET v == villagers[Head(ks)]
       IN  IF v.key \notin DOMAIN coords THEN LookupFault
           ELSE IF coords[v.key][1] = x /\ coords[v.key][2] = y THEN Some(v.id)
           ELSE first_villager_at(Tail(ks), x, y)

villager_id_in_column(x, y) ==
  LET hits == {k \in DOMAIN villagers : coords[k][1] = x}
  IN  IF hits = {} THEN None
      ELSE Some(villagers[CHOOSE k \in hits : \A j \in hits : k <= j].id)

villager_id_at(x, y) == first_villager_at(keys_in_order(DOMAIN villagers), x, y)

RECURSIVE first_villager_with(_, _)
first_villager_with(ks, id) ==
  IF ks = <<>> THEN None
  ELSE IF villagers[Head(ks)].id = id THEN Some(villagers[Head(ks)])
  ELSE first_villager_with(Tail(ks), id)

villager(id) == first_villager_with(keys_in_order(DOMAIN villagers), id)

Next == tick \/ AddVillagerAt \/ AddFarmAt \/ process_events

Spec == Init /\ [][Next]_vars

(***************************************************************************)
(* Properties                                                              *)
(***************************************************************************)
Top == events[Len(events)]

Below == SubSeq(events, 1, Len(events) - 1)

HandledNow(kind) ==
  /\ events # <<>>
  /\ Len(handled') = Len(handled) + 1
  /\ handled'[Len(handled')] = kind

WorldIsNew ==
  /\ DOMAIN villagers = {1}
  /\ villagers[1].last_ate = 0
  /\ satiation = (1 :> 1)
  /\ DOMAIN farms = {2, 3, 4}
  /\ \A k \in DOMAIN farms : farms[k].last_grew = 0
  /\ DOMAIN death_markers = {}
  /\ coords = (1 :> <<4, 4>>) @@ (2 :> <<5, 4>>) @@ (3 :> <<5, 5>>) @@ (4 :> <<5, 6>>)

CascadeBegun == events # <<>> \/ handled # <<>>

(* C1 as stated: starting from World::new() with no placement call, after each
   of the first 19 calls to tick() no cascade has run and the world equals the
   initial one except for the tick counter. *)
C1_Quiet19 ==
  (Idle /\ entities = 4 /\ ticks <= 19) => (WorldIsNew /\ handled = <<>>)

(* C1 amended: the same for the first 18 calls; the first cascade runs during
   the 19th call to tick(). *)
C1_Quiet18 ==
  /\ (entities = 4 /\ ticks <= 18) => (WorldIsNew /\ ~CascadeBegun)
  /\ (ticks = 19) => CascadeBegun

C1_Witness == ticks = 18 /\ entities = 4 /\ Idle

(* C2: a call to tick() adds exactly 1 to the counter; it pushes VillagersMoved,
   VillagersFarmed, FarmsCultivated, GravesCleared in that order exactly when
   (ticks + 1) % 20 = 0 for the incremented counter, and otherwise changes
   nothing but the counter; only tick() changes the counter. *)
C2_TickEffect ==
  [][ /\ (ticks' # ticks) =>
           /\ ticks' = ticks + 1
           /\ events = <<>>
           /\ UNCHANGED <<entities, coords, satiation, villagers, farms,
                          death_markers, last_id>>
           /\ IF (ticks' + 1) % 20 = 0
              THEN events' = <<WE_VillagersMoved, WE_VillagersFarmed,
                               WE_FarmsCultivated, WE_GravesCleared>>
              ELSE events' = <<>>
      /\ (events' # <<>>) => (ticks' + 1) % 20 = 0 ]_vars

C2_Witness == ticks = 39 /\ Len(events) = 4 /\ handled = <<>>

Phase(kind) ==
  CASE kind = "GravesCleared" -> 1
    [] kind \in {"FarmsCultivated", "FarmGrew", "FarmAdded"} -> 2
    [] kind \in {"VillagersFarmed", "VillagerHarvested", "VillagerAte",
                 "FarmHarvested", "VillagerHungered", "VillagerDied"} -> 3
    [] kind \in {"VillagersMoved", "VillagerMoved"} -> 4

BatchOf(phase) ==
  CASE phase = 1 -> "GravesCleared"
    [] phase = 2 -> "FarmsCultivated"
    [] phase = 3 -> "VillagersFarmed"
    [] phase = 4 -> "VillagersMoved"

(* C3: in every cascade GravesCleared is handled first, then FarmsCultivated
   and the events derived from it, then VillagersFarmed and its derived events,
   then VillagersMoved and every VillagerMoved; the event handled is always the
   newest one on the stack, and everything below it stays in place under the
   events its handler pushes. *)
C3_InvertedPushOrder ==
  /\ [](/\ \A i, j \in 1..Len(handled) :
              i < j => Phase(handled[i]) <= Phase(handled[j])
        /\ \A i \in 1..Len(handled) :
              (i = 1 \/ Phase(handled[i - 1]) < Phase(handled[i]))
                 => handled[i] = BatchOf(Phase(handled[i]))
        /\ handled # <<>> =>
              \A i \in 1..Len(events) :
                 Phase(events[i].kind) >= Phase(handled[Len(handled)]))
  /\ [][ (events # <<>> /\ Len(handled') = Len(handled) + 1) =>
            /\ handled'[Len(handled')] = Top.kind
            /\ Len(events') >= Len(events) - 1
            /\ SubSeq(events', 1, Len(events) - 1) = Below ]_vars

C3_Witness ==
  /\ events = <<>>
  /\ \E i, j, k \in 1..Len(handled) :
       /\ handled[i] = "FarmAdded"
       /\ handled[j] = "VillagerAte"
       /\ handled[k] = "VillagerMoved"

Weight(e) ==
  CASE e.kind \in {"VillagerMoved", "VillagerAte", "FarmHarvested", "VillagerDied",
                   "FarmAdded", "GravesCleared"} -> 1
    [] e.kind \in {"VillagerHungered", "FarmGrew"} -> 2
    [] e.kind = "VillagerHarvested" -> 3
    [] e.kind = "FarmsCultivated" -> 1 + 2 * Cardinality(DOMAIN farms)
    [] e.kind = "VillagersFarmed" -> 1 + 3 * Cardinality(DOMAIN villagers)
    [] e.kind = "VillagersMoved" -> 1 + Cardinality(DOMAIN villagers)

RECURSIVE SumWeights(_, _)
SumWeights(evs, i) == IF i = 0 THEN 0 ELSE Weight(evs[i]) + SumWeights(evs, i - 1)

Measure == SumWeights(events, Len(events))

(* C4: every cascade terminates: no handler aborts, and each event handled
   strictly decreases a natural-number measure of the pending stack (an event
   weighs more than everything it can expand into), so the stack empties after
   finitely many events; a public operation starts only on an empty stack. *)
C4_CascadeTerminates ==
  /\ [](~panicked)
  /\ [][ /\ (events # <<>>) => (Measure' < Measure /\ ticks' = ticks)
         /\ (ticks' # ticks \/ entities' # entities) =>
               (events = <<>> \/ Len(handled') = Len(handled) + 1) ]_vars

C4_Witness ==
  /\ events = <<>>
  /\ Len(handled) >= 20
  /\ \E i \in 1..Len(handled) : handled[i] = "VillagerHungered"

(* C5 as stated: satiation is never negative and in every state observed after
   tick() returns no live villager has satiation 0. *)
C5_NoLiveVillagerAtZero ==
  /\ \A k \in DOMAIN satiation : satiation[k] >= 0
  /\ Idle => \A k \in DOMAIN villagers : satiation[k] > 0

(* C6: a removed villager never comes back; a step that removes a villager
   removes one only and creates exactly one death marker, on the cell the
   villager stood on; markers appear in no other way, and a marker keeps its
   place and its cell in every step except the handling of GravesCleared. *)
C6_DeathMarkers ==
  [][ LET gone == (DOMAIN villagers) \ (DOMAIN villagers')
          made == (DOMAIN death_markers') \ (DOMAIN death_markers)
      IN  /\ \A k \in (DOMAIN satiation) \ (DOMAIN villagers) : k \notin DOMAIN villagers'
          /\ Cardinality(gone) <= 1
          /\ Cardinality(made) = Cardinality(gone)
          /\ \A k \in gone : \A d \in made :
                /\ HandledNow("VillagerDied")
                /\ Top.key = k
                /\ d \notin DOMAIN coords
                /\ coords'[d] = coords[k]
                /\ DOMAIN death_markers' = (DOMAIN death_markers) \cup {d}
          /\ \A d \in DOMAIN death_markers :
                \/ d \in DOMAIN death_markers' /\ coords'[d] = coords[d]
                \/ HandledNow("GravesCleared") ]_vars

C6_Witness ==
  /\ ticks = 58
  /\ \E d \in DOMAIN death_markers :
       \E k \in (DOMAIN satiation) \ (DOMAIN villagers) : coords[d] = coords[k]
  /\ \E i \in 1..Len(handled) : handled[i] = "VillagerMoved"

(* C7: handling GravesCleared leaves death_markers empty and leaves the live
   villagers, the live farms, every satiation and last_ate and every last_grew
   as they were. *)
C7_GravesClearedFrame ==
  [][ HandledNow("GravesCleared") =>
        /\ DOMAIN death_markers' = {}
        /\ villagers' = villagers
        /\ farms' = farms
        /\ satiation' = satiation ]_vars

C7_Witness ==
  /\ handled = <<"GravesCleared">>
  /\ DOMAIN death_markers = {}
  /\ (DOMAIN satiation) \ (DOMAIN villagers) # {}

InInterior(c) ==
  /\ c[1] >= 1 /\ c[1] <= GRID_WIDTH - 2
  /\ c[2] >= 1 /\ c[2] <= GRID_HEIGHT - 2

Abs(n) == IF n < 0 THEN 0 - n ELSE n

Distance(a, b) == Abs(a[1] - b[1]) + Abs(a[2] - b[2])

(* C8 as stated: wherever on the grid add_villager_at placed the villager, the
   coordinate stored by handling VillagerMoved(key, dir) lies in
   [1, GRID_WIDTH-2] x [1, GRID_HEIGHT-2] and is at most one cell away from the
   previous one. *)
C8_MoveStaysInside ==
  [][ HandledNow("VillagerMoved") =>
        /\ InInterior(coords'[Top.key])
        /\ Distance(coords[Top.key], coords'[Top.key]) <= 1 ]_vars

(* C9 as stated: in every state reachable by tick(), add_farm_at and
   add_villager_at no two live farms have the same coordinate. *)
C9_FarmsDistinct ==
  \A k1, k2 \in DOMAIN farms : k1 # k2 => coords[k1] # coords[k2]

OrthogonalNeighbours(c) ==
  {<<c[1] + 1, c[2]>>, <<c[1] - 1, c[2]>>, <<c[1], c[2] + 1>>, <<c[1], c[2] - 1>>}

FreeNeighbours(key) ==
  {c \in OrthogonalNeighbours(coords[key]) :
     InInterior(c) /\ \A k \in DOMAIN farms : coords[k] # c}

(* C10 as stated: FarmGrew(k) inside the cooldown (now - last_grew < 20) changes
   nothing; otherwise last_grew(k) becomes now and, when some orthogonal
   neighbour cell of k inside [1,6] x [1,6] holds no live farm, exactly one
   farm is created, on one of those cells, with last_grew = now; when there is
   no such cell no farm is created. *)
C10_FarmGrewEffect ==
  [][ /\ HandledNow("FarmGrew") =>
           IF ticks - farms[Top.key].last_grew < 20
           THEN farms' = farms /\ coords' = coords /\ events' = Below
           ELSE /\ farms' = [farms EXCEPT ![Top.key].last_grew = ticks]
                /\ IF FreeNeighbours(Top.key) = {}
                   THEN events' = Below
                   ELSE \E c \in FreeNeighbours(Top.key) :
                           events' = Below \o <<WE_FarmAdded(c)>>
      /\ HandledNow("FarmAdded") =>
           \E k \in (DOMAIN farms') \ (DOMAIN farms) :
              /\ DOMAIN farms' = (DOMAIN farms) \cup {k}
              /\ \A f \in DOMAIN farms : farms'[f] = farms[f]
              /\ farms'[k].last_grew = ticks
              /\ coords'[k] = Top.coords ]_vars

(* C11: whenever a public operation has returned, the keys of coords are
   exactly the live villagers, live farms and current death markers, and the
   keys of satiation are exactly the live villagers. *)
C11_CoordsMatchLive ==
  Idle =>
    /\ DOMAIN coords = (DOMAIN villagers) \cup (DOMAIN farms) \cup (DOMAIN death_markers)
    /\ DOMAIN satiation = DOMAIN villagers

FirstCascadeOrder ==
  <<"GravesCleared", "FarmsCultivated", "FarmGrew", "FarmGrew", "FarmGrew",
    "VillagersFarmed", "VillagerHarvested", "VillagerAte", "FarmHarvested",
    "VillagersMoved", "VillagerMoved">>

(* C12: in the first cascade of a new World no farm grows; the villager eats
   (satiation 1 -> 2, last_ate = the current tick) and exactly one of the three
   farms is removed; only after that the villager moves from (4,4) to a cell
   exactly one orthogonal step away. *)
C12_FirstCascade ==
  (ticks = 19 /\ entities = 4) =>
    LET n == Len(handled)
    IN  /\ ~panicked
        /\ n <= Len(FirstCascadeOrder)
        /\ handled = SubSeq(FirstCascadeOrder, 1, n)
        /\ (events = <<>>) <=> (n = Len(FirstCascadeOrder))
        /\ DOMAIN villagers = {1}
        /\ DOMAIN death_markers = {}
        /\ DOMAIN farms \subseteq {2, 3, 4}
        /\ \A k \in DOMAIN farms : farms[k].last_grew = 0
        /\ \A k \in {2, 3, 4} : coords[k] = <<5, k + 2>>
        /\ Cardinality(DOMAIN farms) = IF n >= 9 THEN 2 ELSE 3
        /\ satiation = (1 :> IF n >= 8 THEN 2 ELSE 1)
        /\ villagers[1].last_ate = IF n >= 8 THEN 19 ELSE 0
        /\ IF n >= 11 THEN Distance(coords[1], <<4, 4>>) = 1
                      ELSE coords[1] = <<4, 4>>

C12_Witness ==
  /\ ticks = 19 /\ entities = 4 /\ Idle
  /\ satiation[1] = 2 /\ Cardinality(DOMAIN farms) = 2 /\ coords[1] # <<4, 4>>

(* C13: satiation always lies in 0..255: VillagerAte is handled only below
   255 and adds exactly 1; VillagerHungered subtracts 1 only from a positive
   satiation and leaves 0 at 0; no handler aborts. *)
C13_SatiationInU8 ==
  /\ [](~panicked /\ \A k \in DOMAIN satiation : satiation[k] \in 0..255)
  /\ [][ /\ HandledNow("VillagerAte") =>
              /\ satiation[Top.key] < 255
              /\ satiation' = [satiation EXCEPT ![Top.key] = @ + 1]
         /\ HandledNow("VillagerHungered") =>
              satiation' = [satiation EXCEPT ![Top.key] = IF @ > 0 THEN @ - 1 ELSE 0]
       ]_vars

C13_Witness ==
  /\ events # <<>> /\ Top.kind = "VillagerDied" /\ satiation[Top.key] = 0
  /\ handled[Len(handled)] = "VillagerHungered"
  /\ \E j \in DOMAIN villagers : j # Top.key /\ satiation[j] = 1 /\ villagers[j].last_ate = ticks

LookupCells ==
  {coords[k] : k \in DOMAIN coords}
    \cup {<<coords[k][1], GRID_HEIGHT>> : k \in DOMAIN villagers}
    \cup {<<GRID_WIDTH, coords[k][2]>> : k \in DOMAIN villagers}

LookupIds ==
  {villagers[k].id : k \in DOMAIN villagers} \cup (DOMAIN satiation) \cup {0, last_id + 1}

(* C14: on every cell where an entity stands or was last seen, and on the cells
   beyond the grid in each live villager's column and row, villager_id_at(x, y)
   is Some(id of a live villager standing on (x, y)) when there is one and None
   otherwise; for every id of a live or dead villager, 0, and the next unused
   id, villager(id) is Some(the live villager with that id) when there is one
   and None otherwise; neither faults, and neither ever answers with a villager
   that has died. *)
C14_Lookups ==
  /\ \A c \in LookupCells : LET x == c[1] y == c[2] IN
       LET here == {k \in DOMAIN villagers : k \in DOMAIN coords /\ coords[k] = <<x, y>>}
           found == villager_id_at(x, y)
       IN  /\ found # LookupFault
           /\ IF here = {} THEN found = None
              ELSE \E k \in here : found = Some(villagers[k].id)
  /\ \A id \in LookupIds :
       LET named == {k \in DOMAIN villagers : villagers[k].id = id}
           found == villager(id)
       IN  /\ IF named = {} THEN found = None
              ELSE \E k \in named : found = Some(villagers[k])
           /\ found # None => found[2].key \in DOMAIN villagers

C14_Witness ==
  /\ Idle
  /\ \E k \in (DOMAIN satiation) \ (DOMAIN villagers) :
       /\ villager(k) = None
       /\ villager_id_at(coords[k][1], coords[k][2]) = None
  /\ \E j \in DOMAIN villagers :
       /\ villager(villagers[j].id) = Some(villagers[j])
       /\ villager_id_at(coords[j][1], coords[j][2]) = Some(villagers[j].id)

WorldUnchanged ==
  UNCHANGED <<entities, coords, last_id, death_markers, farms, ticks, satiation, villagers>>

LastHandled == handled[Len(handled)]

(* C15: VillagerHarvested(v) changes nothing in the world; when v needs to eat
   and a farm is live it pushes FarmHarvested(f) for one live farm f and
   VillagerAte(v), which are the next two events handled: VillagerAte adds 1
   to satiation(v) and sets last_ate(v) to the current tick, FarmHarvested
   removes exactly the farm f; when v needs to eat and no farm is live it
   pushes VillagerHungered(v), handled next, which decrements a positive
   satiation and otherwise pushes VillagerDied(v); when v does not need to eat
   it pushes nothing. *)
C15_VillagerHarvestedEffect ==
  [][ /\ HandledNow("VillagerHarvested") =>
           /\ WorldUnchanged
           /\ IF need_to_eat(satiation[Top.key], ticks - villagers[Top.key].last_ate)
              THEN IF DOMAIN farms # {}
                   THEN \E f \in DOMAIN farms :
                          events' = Below \o <<WE_FarmHarvested(f), WE_VillagerAte(Top.key)>>
                   ELSE events' = Below \o <<WE_VillagerHungered(Top.key)>>
              ELSE events' = Below
      /\ HandledNow("VillagerAte") =>
           /\ LastHandled = "VillagerHarvested"
           /\ Below # <<>> /\ Below[Len(Below)].kind = "FarmHarvested"
           /\ Below[Len(Below)].key \in DOMAIN farms
           /\ satiation' = [satiation EXCEPT ![Top.key] = @ + 1]
           /\ villagers' = [villagers EXCEPT ![Top.key].last_ate = ticks]
           /\ farms' = farms
           /\ events' = Below
      /\ HandledNow("FarmHarvested") =>
           /\ LastHandled = "VillagerAte"
           /\ Top.key \in DOMAIN farms
           /\ farms' = map_remove(farms, Top.key)
           /\ Cardinality(DOMAIN farms') = Cardinality(DOMAIN farms) - 1
           /\ satiation' = satiation /\ villagers' = villagers
           /\ events' = Below
      /\ HandledNow("VillagerHungered") =>
           /\ LastHandled = "VillagerHarvested"
           /\ DOMAIN farms = {}
           /\ IF satiation[Top.key] > 0
              THEN /\ satiation' = [satiation EXCEPT ![Top.key] = @ - 1]
                   /\ events' = Below
              ELSE /\ satiation' = satiation
                   /\ events' = Below \o <<WE_VillagerDied(Top.key)>>
      /\ HandledNow("VillagerDied") =>
           /\ LastHandled = "VillagerHungered"
           /\ villagers' = map_remove(villagers, Top.key)
    ]_vars

C15_Witness ==
  /\ Len(handled) >= 5
  /\ LastHandled = "VillagerHungered"
  /\ \E i \in 1..(Len(handled) - 2) :
       SubSeq(handled, i, i + 2) = <<"VillagerHarvested", "VillagerAte", "FarmHarvested">>
  /\ \E k \in DOMAIN villagers : satiation[k] = 0 /\ villagers[k].last_ate = ticks

FarmCellsDistinct ==
  \A j, k \in DOMAIN farms : j # k => coords[j] # coords[k]

(* C16: every FarmAdded is handled directly after the FarmGrew that pushed it,
   for a cell on which no live farm stands; and no step of a cascade that
   starts with live farms on pairwise distinct cells ever puts two live farms
   on one cell. *)
C16_GrowthKeepsFarmsDistinct ==
  [][ /\ HandledNow("FarmAdded") =>
           /\ LastHandled = "FarmGrew"
           /\ \A k \in DOMAIN farms : coords[k] # Top.coords
      /\ (events # <<>> /\ FarmCellsDistinct) => FarmCellsDistinct'
    ]_vars

C16_Witness ==
  /\ handled # <<>> /\ LastHandled = "FarmAdded"
  /\ FarmCellsDistinct
  /\ Cardinality(DOMAIN farms) >= 3
  /\ \E k \in DOMAIN farms : farms[k].last_grew = ticks /\ k > 4

(* C17: no farm's last_grew exceeds the tick counter; a new farm starts with
   last_grew = the current tick; the last_grew of an existing farm is changed
   only by handling FarmGrew for that farm, only to the current tick, and only
   when at least 20 ticks have passed since its previous value. *)
C17_LastGrewMonotone ==
  /\ [](\A k \in DOMAIN farms : farms[k].last_grew <= ticks)
  /\ [][ /\ \A k \in (DOMAIN farms') \ (DOMAIN farms) : farms'[k].last_grew = ticks
         /\ \A k \in (DOMAIN farms) \cap (DOMAIN farms') :
              farms'[k].last_grew # farms[k].last_grew =>
                /\ HandledNow("FarmGrew") /\ Top.key = k
                /\ farms'[k].last_grew = ticks
                /\ ticks - farms[k].last_grew >= 20
       ]_vars

C17_Witness ==
  \E k \in DOMAIN farms : k <= 4 /\ farms[k].last_grew = 59

VillagerKinds ==
  {"VillagerMoved", "VillagerHarvested", "VillagerAte", "VillagerHungered", "VillagerDied"}

FarmKinds == {"FarmGrew", "FarmHarvested"}

CountHandled(kind) == Cardinality({i \in 1..Len(handled) : handled[i] = kind})

(* C18: the event about to be handled never names a removed entity: a villager
   event names a live villager, a farm event a live farm; every FarmHarvested
   removes one farm that was live; when a cascade has ended as many farms were
   harvested in it as villagers ate; and no handler aborts on a missing key. *)
C18_NoStaleKey ==
  /\ [](/\ ~panicked
        /\ events # <<>> =>
             /\ Top.kind \in VillagerKinds =>
                  Top.key \in (DOMAIN villagers) \cap (DOMAIN satiation) \cap (DOMAIN coords)
             /\ Top.kind \in FarmKinds =>
                  Top.key \in (DOMAIN farms) \cap (DOMAIN coords)
        /\ events = <<>> => CountHandled("FarmHarvested") = CountHandled("VillagerAte"))
  /\ [][ HandledNow("FarmHarvested") =>
           /\ Top.key \in DOMAIN farms
           /\ DOMAIN farms' = (DOMAIN farms) \ {Top.key}
       ]_vars

C18_Witness ==
  /\ events # <<>> /\ Top.kind = "VillagerMoved"
  /\ CountHandled("VillagerAte") >= 2
  /\ CountHandled("FarmHarvested") = CountHandled("VillagerAte")
  /\ CountHandled("VillagerHungered") >= 1

(* C19: no satiation ever exceeds 5; VillagerAte is handled directly after the
   VillagerHarvested that pushed it, for a villager whose satiation is below 5. *)
C19_SatiationAtMostFive ==
  /\ [](\A k \in DOMAIN satiation : satiation[k] <= 5)
  /\ [][ HandledNow("VillagerAte") =>
           /\ LastHandled = "VillagerHarvested"
           /\ satiation[Top.key] < 5
       ]_vars

C19_Witness ==
  /\ handled # <<>> /\ LastHandled = "VillagerAte"
  /\ \E k \in DOMAIN villagers : satiation[k] = 5 /\ villagers[k].last_ate = ticks

(* C20: once a live villager's satiation is 5, no step changes its satiation
   or its last_ate or removes it; its VillagerHarvested pushes nothing and
   changes nothing; and no VillagerAte, VillagerHungered or VillagerDied is
   ever pending for it. *)
C20_FrozenAtFive ==
  /\ [](\A i \in 1..Len(events) :
          events[i].kind \in {"VillagerAte", "VillagerHungered", "VillagerDied"} =>
            satiation[events[i].key] # 5)
  /\ [][ /\ \A k \in DOMAIN villagers :
              satiation[k] = 5 =>
                /\ k \in DOMAIN villagers'
                /\ satiation'[k] = 5
                /\ villagers'[k] = villagers[k]
         /\ (HandledNow("VillagerHarvested") /\ satiation[Top.key] = 5) =>
              (events' = Below /\ WorldUnchanged)
       ]_vars

C20_Witness ==
  /\ Idle /\ ticks = 99
  /\ CountHandled("VillagerHarvested") >= 1
  /\ \E k \in DOMAIN villagers :
       /\ satiation[k] = 5 /\ villagers[k].last_ate = 79
       /\ CountHandled("VillagerAte") < CountHandled("VillagerHarvested")

====
